---- MODULE Spec2Model ----
(***************************************************************************)
(* Recommendation orchestration, cache-aside and interest upsert of the    *)
(* marketing-personalization backend (src/backend/app).                    *)
(*                                                                         *)
(* Scores and confidences are kept in thousandths (0.5 is 500): the        *)
(* schemas round both to three decimals.                                   *)
(***************************************************************************)
EXTENDS Integers, Sequences, FiniteSets, Bags, TLC

\* ------------------------------------------------------------------ bounds
MaxProducts == 2      \* products ever created
MaxPurchases == 3     \* purchase rows ever inserted
MaxSync == 1          \* runs of the graph mirroring
MaxLimit == 2         \* largest limit a request asks for
MaxInterestCalls == 2 \* add_user_interest calls ever started
MaxInFlight == 2      \* get_personalized_recommendations calls in flight at once

\* ------------------------------------------------------- program constants
FallbackScore == 500     \* recommendation_service.py:235  score=0.5
CategoryScore == 800     \* recommendation_service.py:110  score=0.8
ScoreMax == 1000         \* schemas.py:137  le=1.0

\* generate_uuid hands every new user a fresh id: the ids, in creation order
UserOrder == <<"u1", "u2">>

UserIds == {UserOrder[i] : i \in DOMAIN UserOrder}

\* The user whose recommendations are requested (the other users are the
\* similar users of the graph queries; the ids are interchangeable).
RequestUsers == {"u1"}
ProductIds == 1..MaxProducts
Limits == 1..MaxLimit
\* schemas.py ProductCategory (two of the nine members)
ProductCategory == {"electronics", "clothing"}

VARIABLES
    users,        \* ids of the rows of table users
    products,     \* rows of table products, oldest first (created_at ascending)
    nextProduct,  \* number of products ever created (ids are fresh)
    purchases,    \* rows of table purchases, a bag of [user_id, product_id]
    interests,    \* rows of table user_interests
    nextInterest, \* number of interest rows ever created
    gUp,          \* KnowledgeGraphService.driver is not None
    gUsers,       \* (:User) nodes of the graph store
    gProducts,    \* (:Product) nodes of the graph store: id -> category
    gPurchases,   \* [:PURCHASED] edges of the graph store, a bag
    gInterests,   \* [:INTERESTED_IN] edges of the graph store, a bag
    syncs,        \* runs of the graph mirroring so far
    cUp,          \* CacheService.redis_client is not None
    cache,        \* the key-value store: key -> [present, val]
    calls,        \* add_user_interest calls in flight or finished
    resp,         \* the response being returned by the last request handler
    ret,          \* what the last direct call of a CacheService method returned
    emails,       \* column email of table users: rows [id, email]
    userCalls,    \* create_user calls in flight or finished
    last,         \* the response the client received before the current one
    reqs,         \* get_personalized_recommendations requests in flight
    keyed,        \* the last call of CacheService._get_key: arguments and key
    aged          \* purchase rows with PurchaseLimit newer rows of the same user

vars == <<users, products, nextProduct, purchases, interests, nextInterest,
          gUp, gUsers, gProducts, gPurchases, gInterests, syncs, cUp, cache,
          calls, resp, ret, emails, userCalls, last, reqs, keyed, aged>>

\* ----------------------------------------------------------------- helpers
Min(a, b) == IF a < b THEN a ELSE b

Max(a, b) == IF a > b THEN a ELSE b

\* s[:n]
Take(s, n) == SubSeq(s, 1, Min(n, Len(s)))

Reverse(s) == [i \in 1..Len(s) |-> s[Len(s) + 1 - i]]

Range(s) == {s[i] : i \in DOMAIN s}

\* every ordering of k distinct elements of S
Orderings(S, k) ==
    {s \in [1..k -> S] : \A i, j \in 1..k : i # j => s[i] # s[j]}

\* ------------------------------------------------- results and exceptions
\* The value a Python call returns, or the exception it raises.
Ok(v) == [exc |-> FALSE, val |-> v]

Raise == [exc |-> TRUE, val |-> <<>>]

\* ------------------------------------------------------- relational store
\* BaseRepository.get_by_id on products: the row exists
ProductExists(pid) == \E i \in DOMAIN products : products[i].id = pid

\* ProductRepository.get_featured_products: ORDER BY created_at DESC LIMIT n
GetFeaturedProducts(n, dbFails) ==
    IF dbFails THEN Raise ELSE Ok(Take(Reverse(products), n))

\* get_by_user_id(db, user_id, limit=100), the default of get_user_purchases
PurchaseLimit == 100

\* PurchaseRepository.get_by_user_id: the user's rows ORDER BY timestamp DESC
\* LIMIT 100. The callers collect the product ids only, so the rows are kept as
\* a bag, and of the timestamps the state keeps what the LIMIT depends on: aged
\* holds the rows that a hundred newer rows of the same user have pushed out.
GetUserPurchases(u, dbFails) ==
    IF dbFails THEN Raise
    ELSE Ok({p \in BagToSet(purchases) : p.user_id = u /\ p \notin aged})

\* purchased_products = {p.product_id for p in user_purchases}
PurchasedProducts(userPurchases) == {p.product_id : p \in userPurchases}

\* ProductRepository.get_by_category: WHERE category = c LIMIT n, no ORDER BY:
\* the store returns any n of the matching rows, in any order.
GetProductsByCategory(c, n) ==
    LET rows == {products[i] : i \in {j \in DOMAIN products : products[j].category = c}}
    IN  Orderings(rows, Min(n, Cardinality(rows)))

\* ------------------------------------------------------------ graph store
RECURSIVE PathCount(_)
\* The number of matches of a set of edge triples: parallel edges match separately.
PathCount(T) ==
    IF T = {} THEN 0
    ELSE LET t == CHOOSE x \in T : TRUE
         IN  CopiesIn(t[1], gPurchases) * CopiesIn(t[2], gPurchases)
               * CopiesIn(t[3], gPurchases)
             + PathCount(T \ {t})

\* COUNT(*) of the collaborative-filtering pattern for one rec_product:
\* (u)-[:PURCHASED]->(p)<-[:PURCHASED]-(similar_user)-[:PURCHASED]->(rec_product)
\* WHERE NOT (u)-[:PURCHASED]->(rec_product)
SimilarityScore(u, rec) ==
    LET E == BagToSet(gPurchases)
    IN  IF [user_id |-> u, product_id |-> rec] \in E THEN 0
        ELSE PathCount({t \in E \X E \X E :
                /\ t[1].user_id = u
                /\ t[2].product_id = t[1].product_id
                /\ t[3].user_id = t[2].user_id
                /\ t[3].product_id = rec})

RECURSIVE SumInterest(_)
\* SUM(COALESCE(interest.confidence_score, 0)) over the paths
\* ()-[interest:INTERESTED_IN]->(iv)-[:BELONGS_TO]->(ic): the user variable is not
\* carried through the WITH, so every user's interests match; every
\* create_interest_relationship adds one BELONGS_TO edge to its value node, so
\* an interest edge lies on as many paths as its value node has interest edges.
SumInterest(S) ==
    IF S = {} THEN 0
    ELSE LET e == CHOOSE x \in S : TRUE
             sameValue == {x \in BagToSet(gInterests) : x.iv = e.iv}
         IN  CopiesIn(e, gInterests) * e.confidence_score
               * BagCardinality([x \in sameValue |-> CopiesIn(x, gInterests)])
             + SumInterest(S \ {e})

InterestScore == SumInterest(BagToSet(gInterests))

\* total_score = similarity_score * 0.6 + interest_score * 0.4, in thousandths
TotalScore(u, rec) == 600 * SimilarityScore(u, rec) + (4 * InterestScore) \div 10

\* "score": min(total_score / 10.0, 1.0), then Recommendation rounds to 3 decimals
NormalizedScore(total) == Min((total + 5) \div 10, ScoreMax)

\* The rows of the recommendation query: one per rec_product the pattern reaches.
GraphCandidates(u) == {rec \in DOMAIN gProducts : SimilarityScore(u, rec) > 0}

\* KnowledgeGraphService.get_user_recommendations: [] when the driver is missing
\* or the query raises; else the rows ORDER BY total_score DESC LIMIT limit
\* (rows of equal total_score come in an order the store picks).
KgUserRecommendations(u, limit, kgFails) ==
    IF ~gUp \/ kgFails THEN {<<>>}
    ELSE LET cands == GraphCandidates(u)
             sorted == {s \in Orderings(cands, Cardinality(cands)) :
                          \A i, j \in DOMAIN s :
                              i < j => TotalScore(u, s[i]) >= TotalScore(u, s[j])}
         IN  {[i \in 1..Min(limit, Cardinality(cands)) |->
                 [product_id |-> s[i],
                  category |-> gProducts[s[i]],
                  score |-> NormalizedScore(TotalScore(u, s[i])),
                  reason |-> "Based on similar purchases"]] : s \in sorted}

\* ------------------------------------------------------------------ cache
\* CacheService._get_key without extra parameters
GetKey(key_type, identifier) == "marketing_app:" \o key_type \o ":" \o identifier

\* CacheService._get_key with the one extra parameter category=<c>
GetKeyCategory(key_type, identifier, c) ==
    GetKey(key_type, identifier) \o ":" \o "category=" \o c

\* ---- _get_key with extra parameters
\* the names extra parameters are passed under, in the order str comparison
\* puts them, and the value passed under each
ParamOrder == <<"category", "limit", "page">>

ParamNames == {ParamOrder[i] : i \in DOMAIN ParamOrder}

ParamValue(name) ==
    CASE name = "category" -> [kind |-> "str", repr |-> "electronics"]
      [] name = "limit" -> [kind |-> "int", repr |-> "2"]
      [] OTHER -> [kind |-> "none", repr |-> "None"]

\* **kwargs of a call: the parameters in the order the caller wrote them (a dict
\* keeps insertion order; a name occurs once)
Kwargs ==
    UNION {{[i \in 1..k |-> [name |-> o[i], value |-> ParamValue(o[i])]] :
               o \in Orderings(ParamNames, k)} : k \in 0..Len(ParamOrder)}

\* position of a name under str comparison
NameRank(name) == CHOOSE i \in DOMAIN ParamOrder : ParamOrder[i] = name

\* kwargs.items() as the dict yields them
UnsortedItems(kw) == kw

\* sorted(kwargs.items()): by name, names being distinct
SortedItems(kw) ==
    [i \in DOMAIN kw |->
        CHOOSE item \in {kw[j] : j \in DOMAIN kw} :
            Cardinality({j \in DOMAIN kw : NameRank(kw[j].name) < NameRank(item.name)}) = i - 1]

\* f"{k}={v}"
FormatItem(item) == item.name \o "=" \o item.value.repr

\* ":".join(...) over the first n items
RECURSIVE JoinItems(_, _)
JoinItems(items, n) ==
    IF n = 0 THEN ""
    ELSE IF n = 1 THEN FormatItem(items[1])
    ELSE JoinItems(items, n - 1) \o ":" \o FormatItem(items[n])

\* CacheService._get_key(key_type, identifier, **kwargs)
GetKeyKwargs(key_type, identifier, kw) ==
    IF kw = <<>> THEN GetKey(key_type, identifier)
    ELSE GetKey(key_type, identifier) \o ":" \o JoinItems(SortedItems(kw), Len(kw))

\* no call of _get_key has been made
NoKey == [key_type |-> "", identifier |-> "", kwargs |-> <<>>, key |-> "",
          prev |-> [key_type |-> "", identifier |-> "", kwargs |-> <<>>, key |-> ""]]

RecommendationsKey(u) == GetKey("recommendations", u)

TrendingKey == GetKey("trending", "products")

CategoryRecommendationsKey(u, c) == GetKeyCategory("category_recommendations", u, c)

\* CacheService.get: None when the client is missing, the access raises or the
\* key is absent; else the decoded value.
CacheGet(key, fails) ==
    IF ~cUp \/ fails \/ key \notin DOMAIN cache
    THEN [found |-> FALSE, val |-> <<>>]
    ELSE [found |-> TRUE, val |-> cache[key]]

\* A write that adds the list to the one stored under the key already.
CacheAppend(key, value, fails) ==
    IF ~cUp \/ fails THEN cache
    ELSE [k \in DOMAIN cache \cup {key} |->
            IF k = key /\ key \in DOMAIN cache THEN cache[k] \o value
            ELSE IF k = key THEN value ELSE cache[k]]

\* CacheService.set (setex): the store after the call; unchanged when the client
\* is missing or the access raises.
CacheSet(key, value, fails) ==
    IF ~cUp \/ fails THEN cache
    ELSE [k \in DOMAIN cache \cup {key} |-> IF k = key THEN value ELSE cache[k]]

\* Python truthiness of a cached list: not None and not empty
Truthy(cached) == cached.found /\ cached.val # <<>>

\* ------------------------------------------- cache service: stored encoding
\* Python values handed to CacheService.set.  A scalar is [kind, repr]; a value
\* is a scalar, a list of scalars, or a dict of (key, value) pairs of scalars.
PyInt == [kind |-> "int", repr |-> "1"]

PyStr == [kind |-> "str", repr |-> "1"]

PyNone == [kind |-> "none", repr |-> "None"]

PyDatetime == [kind |-> "datetime", repr |-> "2024-01-01 00:00:00"]

Scalars == {PyInt, PyStr, PyNone, PyDatetime}

ScalarValue(s) == [kind |-> s.kind, repr |-> s.repr, items |-> <<>>, map |-> {}]

ListValue(items) == [kind |-> "list", repr |-> "", items |-> items, map |-> {}]

DictValue(map) == [kind |-> "dict", repr |-> "", items |-> <<>>, map |-> map]

\* the values the cache is exercised with: scalars, lists of at most one
\* element, dicts of at most one entry
Values ==
    {ScalarValue(PyInt), ScalarValue(PyNone)}
        \cup {ListValue(<<>>), ListValue(<<PyStr>>), ListValue(<<PyDatetime>>)}
        \cup {DictValue({}), DictValue({<<PyStr, PyInt>>}),
              DictValue({<<PyInt, PyInt>>}), DictValue({<<PyDatetime, PyInt>>})}

\* json.dumps(..., default=str) of one element: int, str and None have a JSON
\* form of their own, anything else goes through default=str
JsonScalar(s) ==
    CASE s.kind = "int" -> [kind |-> "number", repr |-> s.repr]
      [] s.kind = "str" -> [kind |-> "string", repr |-> s.repr]
      [] s.kind = "none" -> [kind |-> "null", repr |-> "null"]
      [] OTHER -> [kind |-> "string", repr |-> s.repr]

\* json.dumps of a dict key: str as it is, int and None as their JSON text;
\* any other key type is a TypeError (default= is not applied to keys)
JsonKeyOk(k) == k.kind \in {"str", "int", "none"}

JsonKey(k) ==
    CASE k.kind = "none" -> [kind |-> "string", repr |-> "null"]
      [] OTHER -> [kind |-> "string", repr |-> k.repr]

\* json.loads of one element
PyScalar(j) ==
    CASE j.kind = "number" -> [kind |-> "int", repr |-> j.repr]
      [] j.kind = "null" -> PyNone
      [] OTHER -> [kind |-> "str", repr |-> j.repr]

\* CacheService.set, lines 49-53: dict and list go through json.dumps, every
\* other value through pickle.dumps
IsStructured(value) == value.kind \in {"list", "dict"}

\* the serialisation raises (caught by set's except, which returns False)
SerializeRaises(value) ==
    value.kind = "dict" /\ \E e \in value.map : ~JsonKeyOk(e[1])

Serialize(value) ==
    IF IsStructured(value)
    THEN [format |-> "json",
          body |-> [kind |-> IF value.kind = "list" THEN "array" ELSE "object",
                    repr |-> "",
                    items |-> [i \in DOMAIN value.items |-> JsonScalar(value.items[i])],
                    map |-> {<<JsonKey(e[1]), JsonScalar(e[2])>> : e \in value.map}]]
    ELSE [format |-> "pickle", body |-> value]

\* CacheService.get, lines 69-75: json.loads first; the bytes of a pickle are not
\* a JSON text (they start with the byte 0x80), so they go to pickle.loads
Deserialize(doc) ==
    IF doc.format = "json"
    THEN [kind |-> IF doc.body.kind = "array" THEN "list" ELSE "dict",
          repr |-> "",
          items |-> [i \in DOMAIN doc.body.items |-> PyScalar(doc.body.items[i])],
          map |-> {<<PyScalar(e[1]), PyScalar(e[2])>> : e \in doc.body.map}]
    ELSE doc.body

\* ------------------------------------------ cache service: direct operations
NoRet == [op |-> "none", key |-> "", value |-> ScalarValue(PyNone), sent |-> ScalarValue(PyNone),
          ok |-> FALSE, count |-> 0, raised |-> FALSE, failed |-> FALSE, before |-> {}]

\* what CacheService.set returns (lines 45-59)
SetReturns(value, fails) == ~(~cUp \/ fails \/ SerializeRaises(value))

\* get that hands out the stored entry whether or not the access worked
GetStored(key, fails) ==
    IF key \in DOMAIN cache THEN Deserialize(cache[key]) ELSE ScalarValue(PyNone)

\* what CacheService.get returns (lines 63-78); None when there is nothing to read
GetReturns(key, fails) ==
    LET c == CacheGet(key, fails)
    IN IF c.found THEN Deserialize(c.val) ELSE ScalarValue(PyNone)

\* what CacheService.delete returns (lines 82-89): bool(redis.delete(key))
DeleteReturns(key, fails) == ~(~cUp \/ fails) /\ key \in DOMAIN cache

\* Redis KEYS with a pattern that ends in its only wildcard: the keys that start
\* with the text before the "*"
Matches(pattern, key) ==
    LET n == Len(pattern) - 1
    IN /\ Len(key) >= n
       /\ SubSeq(key, 1, n) = SubSeq(pattern, 1, n)

PatternKeys(pattern) == {k \in DOMAIN cache : Matches(pattern, k)}

\* delete_pattern that removes one of the matching keys only
DeletePatternOne(pattern, fails) ==
    IF ~cUp \/ fails \/ PatternKeys(pattern) = {} THEN {}
    ELSE {CHOOSE k \in PatternKeys(pattern) : TRUE}

\* the keys CacheService.delete_pattern removes (lines 93-103)
DeletePatternKeys(pattern, fails) ==
    IF ~cUp \/ fails THEN {} ELSE PatternKeys(pattern)

\* --------------------------------------------------- recommendation service
NoCacheWrite == [write |-> FALSE, val |-> <<>>]

\* The cached list as it is stored, not cut to the limit.
CachedWhole(cachedVal, limit) == cachedVal

\* [Recommendation(**rec) for rec in cached_recommendations[:limit]]
CachedSlice(cachedVal, limit) == Take(cachedVal, limit)

\* The body of RecommendationService._get_fallback_recommendations' try block
FallbackBody(u, limit, dbFails) ==
    LET featured == GetFeaturedProducts(limit, dbFails)
        bought == GetUserPurchases(u, dbFails)
    IN  IF featured.exc \/ bought.exc THEN Raise
        ELSE LET fresh == SelectSeq(featured.val,
                              LAMBDA p : p.id \notin PurchasedProducts(bought.val))
                 recs == [i \in DOMAIN fresh |->
                            [product_id |-> fresh[i].id,
                             category |-> fresh[i].category,
                             score |-> FallbackScore,
                             reason |-> "Popular product recommendation"]]
             IN  Ok(Take(recs, limit))

\* A fallback that recommends nothing.
FallbackNothing(u, limit, dbFails) == <<>>

\* RecommendationService._get_fallback_recommendations: except Exception -> []
FallbackRecommendations(u, limit, dbFails) ==
    LET r == FallbackBody(u, limit, dbFails)
    IN  IF r.exc THEN <<>> ELSE r.val

\* A graph row becomes a Recommendation when its product still exists in the
\* relational store, its category is a ProductCategory and its score validates.
ValidCandidate(rec) ==
    /\ ProductExists(rec.product_id)
    /\ rec.category \in ProductCategory
    /\ rec.score \in 0..ScoreMax

\* The try block of RecommendationService.get_personalized_recommendations.
\* cached: what the cache lookup returned; kg: what the graph query returned;
\* db: the relational access that raises ("none", "user", "product", "fallback").
PersonalizedBody(u, limit, cached, kg, db) ==
    IF Truthy(cached)
    THEN [exc |-> FALSE, val |-> CachedSlice(cached.val, limit),
          cacheWrite |-> NoCacheWrite, path |-> "hit", failed |-> "none"]
    ELSE IF db = "user"
    THEN [exc |-> TRUE, val |-> <<>>, cacheWrite |-> NoCacheWrite,
          path |-> "except", failed |-> "user"]
    ELSE IF u \notin users
    THEN [exc |-> FALSE, val |-> <<>>, cacheWrite |-> NoCacheWrite,
          path |-> "nouser", failed |-> "none"]
    ELSE IF kg # <<>> /\ db = "product"
    THEN [exc |-> TRUE, val |-> <<>>, cacheWrite |-> NoCacheWrite,
          path |-> "except", failed |-> "product"]
    ELSE LET fromGraph == SelectSeq(kg, ValidCandidate)
             padded == Len(fromGraph) < limit
             recs == IF padded
                     THEN fromGraph \o FallbackRecommendations(
                              u, limit - Len(fromGraph), db = "fallback")
                     ELSE fromGraph
         IN  [exc |-> FALSE, val |-> Take(recs, limit),
              cacheWrite |-> [write |-> TRUE, val |-> Take(recs, limit)],
              path |-> "miss",
              failed |-> IF padded /\ db = "fallback" THEN "fallback" ELSE "none"]

\* The try block alone: an exception leaves the method.
PersonalizedUnhandled(u, limit, cached, kg, db, handlerDb) ==
    PersonalizedBody(u, limit, cached, kg, db)

\* The method without its cache write.
PersonalizedUncached(u, limit, cached, kg, db, handlerDb) ==
    LET body == PersonalizedBody(u, limit, cached, kg, db)
    IN  IF body.exc
        THEN [exc |-> FALSE, val |-> FallbackRecommendations(u, limit, handlerDb),
              cacheWrite |-> NoCacheWrite, path |-> "except", failed |-> body.failed]
        ELSE [body EXCEPT !.cacheWrite = NoCacheWrite]

\* RecommendationService.get_personalized_recommendations: the try block, and
\* on any exception the fallback list (handlerDb: the relational store still
\* fails when the handler reads it).
PersonalizedRecommendations(u, limit, cached, kg, db, handlerDb) ==
    LET body == PersonalizedBody(u, limit, cached, kg, db)
    IN  IF body.exc
        THEN [exc |-> FALSE, val |-> FallbackRecommendations(u, limit, handlerDb),
              cacheWrite |-> NoCacheWrite, path |-> "except", failed |-> body.failed]
        ELSE body

\* RecommendationService.get_category_recommendations.
\* rows: what get_products_by_category(category, limit * 2) returned.
CategoryRecommendations(u, c, limit, cached, rows, dbFails) ==
    IF Truthy(cached)
    THEN [exc |-> FALSE, val |-> CachedSlice(cached.val, limit),
          cacheWrite |-> NoCacheWrite, path |-> "hit", failed |-> "none"]
    ELSE LET bought == GetUserPurchases(u, dbFails)
         IN  IF bought.exc
             THEN [exc |-> FALSE, val |-> <<>>, cacheWrite |-> NoCacheWrite,
                   path |-> "except", failed |-> "purchases"]
             ELSE LET available == SelectSeq(rows,
                             LAMBDA p : p.id \notin PurchasedProducts(bought.val))
                      chosen == Take(available, limit)
                      recs == [i \in DOMAIN chosen |->
                                 [product_id |-> chosen[i].id,
                                  category |-> c,
                                  score |-> CategoryScore,
                                  reason |-> "Popular product in category"]]
                  IN  [exc |-> FALSE, val |-> recs,
                       cacheWrite |-> [write |-> TRUE, val |-> recs],
                       path |-> "miss", failed |-> "none"]

\* ------------------------------------- similar users and trending products
\* get_similar_user_recommendations asks the graph store for 5 similar users
SimilarUsersLimit == 5

\* trend_score values (in thousandths) of the trending query: purchase amounts
\* and timestamps are not kept, so a row's score is one of a low (3.7) and a
\* high (150.0) sample
TrendScoreSamples == {3700, 150000}

RECURSIVE EdgeCount(_)
\* The number of [:PURCHASED] edges among a set of (user, product) pairs.
EdgeCount(S) ==
    IF S = {} THEN 0
    ELSE LET e == CHOOSE x \in S : TRUE
         IN  CopiesIn(e, gPurchases) + EdgeCount(S \ {e})

RECURSIVE PairCount(_)
\* The number of matches of a set of edge pairs.
PairCount(T) ==
    IF T = {} THEN 0
    ELSE LET t == CHOOSE x \in T : TRUE
         IN  CopiesIn(t[1], gPurchases) * CopiesIn(t[2], gPurchases)
               + PairCount(T \ {t})

\* COUNT(p) as common_products: (u)-[:PURCHASED]->(p)<-[:PURCHASED]-(similar_user)
CommonProducts(u, other) ==
    LET E == BagToSet(gPurchases)
    IN  PairCount({t \in E \X E :
            /\ t[1].user_id = u
            /\ t[2].user_id = other
            /\ t[2].product_id = t[1].product_id})

\* COUNT(all_products) as total_products: the edges of the similar user
TotalProducts(other) == EdgeCount({e \in BagToSet(gPurchases) : e.user_id = other})

\* KnowledgeGraphService.get_similar_users: [] when the driver is missing or the
\* query raises; else the users sharing a product with u, ORDER BY
\* common_products / total_products DESC LIMIT limit.
KgSimilarUsers(u, limit, kgFails) ==
    IF ~gUp \/ kgFails THEN {<<>>}
    ELSE LET others == {o \in gUsers : o # u /\ CommonProducts(u, o) > 0}
             sorted == {s \in Orderings(others, Cardinality(others)) :
                          \A i, j \in DOMAIN s :
                              i < j => CommonProducts(u, s[i]) * TotalProducts(s[j])
                                         >= CommonProducts(u, s[j]) * TotalProducts(s[i])}
         IN  {[i \in 1..Min(limit, Cardinality(others)) |->
                 [user_id |-> s[i],
                  common_products |-> CommonProducts(u, s[i]),
                  total_products |-> TotalProducts(s[i])]] : s \in sorted}

\* KnowledgeGraphService.get_trending_products: [] when the driver is missing or
\* the query raises; else the products with a purchase edge of the last 30 days
\* (any of the purchased products), ORDER BY trend_score DESC LIMIT limit.
KgTrendingProducts(limit, kgFails) ==
    IF ~gUp \/ kgFails THEN {<<>>}
    ELSE LET bought == {e.product_id : e \in BagToSet(gPurchases)}
         IN  UNION {
               {r \in [1..Min(limit, Cardinality(recent)) ->
                         [product_id : recent, trend_score : TrendScoreSamples]] :
                   /\ \A i, j \in DOMAIN r : i # j => r[i].product_id # r[j].product_id
                   /\ \A i, j \in DOMAIN r : i < j => r[i].trend_score >= r[j].trend_score} :
               recent \in SUBSET bought}

\* every sequence that lists each element of a bag as often as the bag holds it
BagOrderings(B) ==
    {s \in [1..BagCardinality(B) -> BagToSet(B)] :
        \A e \in BagToSet(B) : Cardinality({i \in DOMAIN s : s[i] = e}) = CopiesIn(e, B)}

\* score=similar_user["similarity_score"] * 0.8, rounded to 3 decimals
SimilarScore(row) ==
    (2 * 800 * row.common_products + row.total_products) \div (2 * row.total_products)

\* The inner loop of get_similar_user_recommendations for one similar user: the
\* user's purchase rows, newest first (any order here: the timestamps are not
\* kept), without what u has bought, what is no longer in the catalog and what
\* fails the validation of Recommendation.
SimilarUserEntries(u, row) ==
    LET rows == [p \in {q \in BagToSet(purchases) : q.user_id = row.user_id} |->
                    CopiesIn(p, purchases)]
        keep(p) == /\ p.product_id \notin PurchasedProducts(GetUserPurchases(u, FALSE).val)
                   /\ ProductExists(p.product_id)
                   /\ SimilarScore(row) \in 0..ScoreMax
    IN  {LET kept == SelectSeq(s, keep)
         IN  [i \in DOMAIN kept |->
                [product_id |-> kept[i].product_id,
                 category |-> (CHOOSE p \in Range(products) :
                                  p.id = kept[i].product_id).category,
                 score |-> SimilarScore(row),
                 reason |-> "Users with similar tastes also bought this"]] :
         s \in BagOrderings(rows)}

RECURSIVE SimilarEntries(_, _)
\* The entries of the outer loop, similar user after similar user.
SimilarEntries(u, kg) ==
    IF kg = <<>> THEN {<<>>}
    ELSE {h \o t : h \in SimilarUserEntries(u, Head(kg)), t \in SimilarEntries(u, Tail(kg))}

\* RecommendationService.get_similar_user_recommendations.
\* kg: what get_similar_users returned; entries: what the loops collect when
\* they are not cut short; the loops stop at limit entries.
SimilarUserRecommendations(u, limit, kg, entries, dbFails) ==
    IF kg = <<>>
    THEN [exc |-> FALSE, val |-> <<>>, path |-> "nosimilar", failed |-> "none"]
    ELSE IF dbFails
    THEN [exc |-> FALSE, val |-> <<>>, path |-> "except", failed |-> "purchases"]
    ELSE [exc |-> FALSE, val |-> Take(entries, limit), path |-> "miss", failed |-> "none"]

\* The validation loop of get_trending_recommendations:
\* score = min(trend_score / 100.0, 1.0)
TrendingEntries(kg) ==
    LET kept == SelectSeq(kg, LAMBDA r : /\ ProductExists(r.product_id)
                                         /\ gProducts[r.product_id] \in ProductCategory)
    IN  [i \in DOMAIN kept |->
           [product_id |-> kept[i].product_id,
            category |-> gProducts[kept[i].product_id],
            score |-> Min(kept[i].trend_score \div 100, ScoreMax),
            reason |-> "Trending"]]

\* RecommendationService.get_trending_recommendations
TrendingRecommendations(limit, cached, kg, dbFails) ==
    IF Truthy(cached)
    THEN [exc |-> FALSE, val |-> CachedSlice(cached.val, limit),
          cacheWrite |-> NoCacheWrite, path |-> "hit", failed |-> "none"]
    ELSE IF kg # <<>> /\ dbFails
    THEN [exc |-> FALSE, val |-> <<>>, cacheWrite |-> NoCacheWrite,
          path |-> "except", failed |-> "product"]
    ELSE [exc |-> FALSE, val |-> TrendingEntries(kg),
          cacheWrite |-> [write |-> TRUE, val |-> TrendingEntries(kg)],
          path |-> "miss", failed |-> "none"]

\* --------------------------------------------------------- interest service
\* schemas.py InterestCategory (one of the ten members) and the values and
\* confidence scores that requests submit (1500 is 1.5)
InterestCategory == {"technology"}

InterestValues == {"gadgets"}

SubmittedScores == {300, 900, 1500}

\* UserInterestBase: confidence_score ge=0.0, le=1.0
ValidConfidence(score) == 0 <= score /\ score <= ScoreMax

\* UserInterestRepository.find_duplicate_interest: the rows of the triple; .first()
\* returns any one of them (no ORDER BY), None when there is none.
DuplicateInterests(u, c, v) ==
    {r \in interests : r.user_id = u /\ r.interest_category = c /\ r.interest_value = v}

NoInterest == [found |-> FALSE, id |-> 0, confidence_score |-> 0]

\* Overwrite by the latest score.
NewScoreLatest(existing, submitted) == submitted

\* new_score = max(existing_interest.confidence_score, validated_interest.confidence_score)
NewScore(existing, submitted) == Max(existing, submitted)

\* UserInterestRepository.update_confidence_score -> BaseRepository.update
UpdateConfidenceScore(rows, id, score) ==
    {IF r.id = id THEN [r EXCEPT !.confidence_score = score] ELSE r : r \in rows}

\* UserInterestRepository.create_interest -> BaseRepository.create
CreateInterest(rows, id, call) ==
    rows \cup {[id |-> id, user_id |-> call.user_id,
                interest_category |-> call.interest_category,
                interest_value |-> call.interest_value,
                confidence_score |-> call.confidence_score]}

\* KnowledgeGraphService.create_interest_relationship: one INTERESTED_IN edge
\* when the driver is there and MATCH finds the user node.
CreateInterestRelationship(edges, call) ==
    IF gUp /\ call.user_id \in gUsers
    THEN edges (+) SetToBag({[user_id |-> call.user_id,
                              iv |-> <<call.interest_value, call.interest_category>>,
                              confidence_score |-> call.confidence_score]})
    ELSE edges

\* ---- interests inferred from the purchase history
\* analyze_purchase_interests, lines 93-97: the category a purchase is counted
\* under; the product is not looked up, every purchase goes under 'unknown'
CountedCategory(purchase) == "unknown"

\* Counter over the user's purchases: the categories counted and their counts
CountedCategories(rows) == {CountedCategory(r) : r \in BagToSet(rows)}

CategoryCount(rows, category) ==
    BagCardinality([r \in {q \in BagToSet(rows) : CountedCategory(q) = category} |->
                        CopiesIn(r, rows)])

\* _map_purchase_to_interest_category: mapping.get(purchase_category), "" for None
MapPurchaseToInterestCategory(category) ==
    CASE category = "clothing" -> "fashion"
      [] category = "electronics" -> "technology"
      [] category = "food_beverage" -> "food"
      [] category = "travel_services" -> "travel"
      [] category = "fitness_equipment" -> "fitness"
      [] category = "home_garden" -> "home"
      [] category = "beauty_personal_care" -> "beauty"
      [] category = "books_media" -> "books"
      [] category = "sports_outdoors" -> "sports"
      [] OTHER -> ""

\* confidence_score = min(count * 0.1, 1.0), in thousandths
AnalysisConfidence(count) == Min(count * 100, ScoreMax)

\* the categories for which an interest is generated: count >= 2 and a mapping
GeneratedCategories(rows) ==
    {c \in CountedCategories(rows) :
        CategoryCount(rows, c) >= 2 /\ MapPurchaseToInterestCategory(c) # ""}

\* interest_data of the generated interest of a category
GeneratedInterest(u, rows, c) ==
    [user_id |-> u,
     interest_category |-> MapPurchaseToInterestCategory(c),
     interest_value |-> "frequent_buyer_" \o c,
     confidence_score |-> AnalysisConfidence(CategoryCount(rows, c))]

\* ------------------------------------------------------------ user accounts
\* the emails that create_user is called with, and the number of calls
SubmittedEmails == {"A@x.io", "a@x.io", "b@x.io"}

MaxUserCalls == 3

\* str.lower() on the submitted emails
Lower(email) == IF email = "A@x.io" THEN "a@x.io" ELSE email

\* UserBase.validate_email: the email as validate_user_data hands it on
ValidatedEmail(email) == Lower(email)

\* UserRepository.get_by_email: WHERE email = email.lower()
GetByEmail(email) == {r \in emails : r.email = Lower(email)}

\* INSERT without the unique index on users.email
InsertUserUnchecked(rows, id, email) ==
    [exc |-> FALSE, val |-> rows \cup {[id |-> id, email |-> Lower(email)]}]

\* UserRepository.create_user -> BaseRepository.create: the row is stored with the
\* lowercased email; the unique index on users.email (database.py:15) makes the
\* commit raise IntegrityError when the email is stored already, and the
\* rollback leaves the table as it was
InsertUser(rows, id, email) ==
    IF \E r \in rows : r.email = Lower(email)
    THEN [exc |-> TRUE, val |-> rows]
    ELSE [exc |-> FALSE, val |-> rows \cup {[id |-> id, email |-> Lower(email)]}]

\* ------------------------------------------------------------------- state
\* No response is on its way to a client.
NoResp == [op |-> "none", user_id |-> "", category |-> "", limit |-> 0,
           raised |-> FALSE, result |-> <<>>, path |-> "", cachedEntry |-> FALSE,
           graphEmpty |-> FALSE, failed |-> "none"]

Init ==
    /\ users = {}
    /\ products = <<>>
    /\ nextProduct = 0
    /\ purchases = EmptyBag
    /\ interests = {}
    /\ nextInterest = 0
    /\ gUp \in BOOLEAN
    /\ gUsers = {}
    /\ gProducts = <<>>
    /\ gPurchases = EmptyBag
    /\ gInterests = EmptyBag
    /\ syncs = 0
    /\ cUp \in BOOLEAN
    /\ cache = <<>>
    /\ calls = <<>>
    /\ resp = NoResp
    /\ ret = NoRet
    /\ emails = {}
    /\ userCalls = <<>>
    /\ last = NoResp
    /\ reqs = <<>>
    /\ keyed = NoKey
    /\ aged = {}

relVars == <<users, products, nextProduct, purchases>>

intVars == <<interests, nextInterest, calls>>

graphVars == <<gUsers, gProducts, gPurchases, gInterests, syncs>>

upVars == <<gUp, cUp>>

acctVars == <<emails, userCalls>>

reqVars == <<last, reqs>>

\* ----------------------------------------------------------------- actions
\* UserDataService.create_user: a new row in users
CreateUser(u) ==
    /\ resp = NoResp
    /\ ret = NoRet
    /\ Cardinality(users) < Len(UserOrder)
    /\ u = UserOrder[Cardinality(users) + 1]
    /\ users' = users \cup {u}
    /\ resp' = resp
    /\ UNCHANGED <<products, nextProduct, purchases, intVars, graphVars, upVars, keyed, aged, acctVars, reqs, ret, cache>>
    /\ last' = NoResp

\* prices are in cents; the price of the first sample product, and the prices
\* that requests submit
ListPrice == 19999

SubmittedPrices == {-500, 0, ListPrice}

\* ProductBase: price gt=0
ValidPrice(price) == price > 0

\* ProductRepository.create_product -> BaseRepository.create: the new row
NewProduct(c, price) == [id |-> nextProduct + 1, category |-> c, price |-> price]

\* ProductService.create_product with valid data: a new row with a fresh id
CreateProduct(c) ==
    /\ resp = NoResp
    /\ ret = NoRet
    /\ nextProduct < MaxProducts
    /\ nextProduct' = nextProduct + 1
    /\ products' = Append(products, NewProduct(c, ListPrice))
    /\ resp' = resp
    /\ UNCHANGED <<users, purchases, intVars, graphVars, upVars, keyed, aged, acctVars, reqs, ret, cache>>
    /\ last' = NoResp

\* ProductService.delete_product: the row is removed; nothing else is touched
DeleteProduct(pid) ==
    /\ resp = NoResp
    /\ ret = NoRet
    /\ ProductExists(pid)
    /\ products' = SelectSeq(products, LAMBDA p : p.id # pid)
    /\ resp' = resp
    /\ UNCHANGED <<users, nextProduct, purchases, intVars, graphVars, upVars, keyed, aged, acctVars, reqs, ret, cache>>
    /\ last' = NoResp

\* UserDataService.add_purchase: the user must exist, the product is not looked
\* up (pid is an id the store has handed out, of a product that may be gone);
\* a new row in purchases; neither the graph nor the cache is touched
AddPurchase(u, pid) ==
    /\ resp = NoResp
    /\ ret = NoRet
    /\ u \in users
    /\ pid <= nextProduct
    /\ BagCardinality(purchases) < MaxPurchases
    /\ purchases' = purchases (+) SetToBag({[user_id |-> u, product_id |-> pid]})
    /\ aged' = aged \ {[user_id |-> u, product_id |-> pid]}
    /\ resp' = resp
    /\ UNCHANGED <<users, products, nextProduct, intVars, graphVars, upVars, keyed, acctVars, reqs, ret, cache>>
    /\ last' = NoResp

\* POST /users/{user_id}/data with PurchaseLimit purchases of one product:
\* add_purchase for each of them. Every row the user had before has a hundred
\* newer rows from now on.
IngestPurchases(u, pid) ==
    /\ resp = NoResp
    /\ ret = NoRet
    /\ u \in users
    /\ pid <= nextProduct
    /\ BagCardinality(purchases) < PurchaseLimit
    /\ purchases' = purchases (+) [r \in {[user_id |-> u, product_id |-> pid]} |-> PurchaseLimit]
    /\ aged' = (aged \cup {r \in BagToSet(purchases) : r.user_id = u})
                    \ {[user_id |-> u, product_id |-> pid]}
    /\ resp' = resp
    /\ UNCHANGED <<users, products, nextProduct, intVars, graphVars, upVars, keyed, acctVars, reqs, ret, cache>>
    /\ last' = NoResp

\* The graph section of scripts/seed_data.py over the rows of the relational
\* store: MERGE a node per user and per product, then CREATE an edge per
\* purchase and per interest whose MATCHed nodes exist.
SyncGraph ==
    /\ resp = NoResp
    /\ gUp
    /\ syncs < MaxSync
    /\ syncs' = syncs + 1
    /\ gUsers' = gUsers \cup users
    /\ gProducts' = [pid \in DOMAIN gProducts \cup {products[i].id : i \in DOMAIN products} |->
                        IF \E i \in DOMAIN products : products[i].id = pid
                        THEN (CHOOSE p \in Range(products) : p.id = pid).category
                        ELSE gProducts[pid]]
    /\ gPurchases' = gPurchases (+)
          [p \in {q \in BagToSet(purchases) :
                    q.user_id \in gUsers' /\ q.product_id \in DOMAIN gProducts'} |->
              CopiesIn(p, purchases)]
    /\ gInterests' = gInterests (+)
          SetToBag({[user_id |-> r.user_id,
                     iv |-> <<r.interest_value, r.interest_category>>,
                     confidence_score |-> r.confidence_score] :
                    r \in {x \in interests : x.user_id \in gUsers'}})
    /\ resp' = resp
    /\ UNCHANGED <<relVars, intVars, upVars, keyed, aged, acctVars, reqs, ret, cache>>
    /\ last' = NoResp

\* scripts/seed_data.py seed_database on a database that holds nothing yet (so
\* the ids of the model are fresh): the sample users and products, the first
\* sample interest for the first user, for every user purchases of a random
\* sample of distinct products, and then the mirroring of all of it into the
\* graph store when the driver is there. The cache is not touched. The sample
\* products have fixed categories: the first is electronics, the others clothing.
SeedDatabase ==
    /\ resp = NoResp
    /\ users = {} /\ nextProduct = 0 /\ nextInterest = 0
    /\ syncs < MaxSync
    /\ syncs' = syncs + 1
    /\ \E sample \in [UserIds -> SUBSET ProductIds \ {{}}] :
       LET cats == [i \in ProductIds |-> IF i = 1 THEN "electronics" ELSE "clothing"]
       IN
          /\ users' = UserIds
          /\ products' = [i \in ProductIds |->
                              [id |-> i, category |-> cats[i], price |-> ListPrice]]
          /\ nextProduct' = MaxProducts
          /\ purchases' = SetToBag({r \in [user_id : UserIds, product_id : ProductIds] :
                                      r.product_id \in sample[r.user_id]})
          /\ interests' = {[id |-> 1, user_id |-> UserOrder[1],
                            interest_category |-> "technology",
                            interest_value |-> "gadgets",
                            confidence_score |-> 900]}
          /\ nextInterest' = 1
          /\ gUsers' = IF gUp THEN gUsers \cup users' ELSE gUsers
          /\ gProducts' = IF gUp THEN [pid \in ProductIds |-> cats[pid]] ELSE gProducts
          /\ gPurchases' = IF gUp THEN gPurchases (+) purchases' ELSE gPurchases
          /\ gInterests' =
                IF gUp
                THEN gInterests (+)
                       SetToBag({[user_id |-> r.user_id,
                                  iv |-> <<r.interest_value, r.interest_category>>,
                                  confidence_score |-> r.confidence_score] :
                                 r \in interests'})
                ELSE gInterests
    /\ resp' = resp
    /\ UNCHANGED <<calls, upVars, keyed, aged, acctVars, reqs, ret, cache>>
    /\ last' = NoResp

\* What a collaborator does during one request: nothing unusual, or one access
\* that raises (cache read, cache write, graph query, or a relational read: the
\* user lookup, a product lookup, the reads of the fallback).
Faults == {"none", "cache_get", "cache_set", "graph",
           "db_user", "db_product", "db_fallback"}

DbFault(fault) ==
    CASE fault = "db_user" -> "user"
      [] fault = "db_product" -> "product"
      [] fault = "db_fallback" -> "fallback"
      [] OTHER -> "none"

\* A call of get_personalized_recommendations (by the endpoint, the marketing or
\* the vision board service) as one step,
\* with the cache write it makes. The response records the request, the list,
\* the path the handler took (cache hit, miss, unknown user, except handler),
\* whether the key was in the cache when the request arrived, whether the graph
\* query was made and returned nothing, and the relational read that raised. The inputs are the user id, the limit, the
\* fault of the call and, after a relational read raised, whether the store
\* still fails when the except handler reads it (handlerDb).
PersonalizedRequest(u, limit, faults) ==
    \E fault \in faults, handlerDb \in BOOLEAN :
    \E kg \in KgUserRecommendations(u, limit, fault = "graph") :
        LET key == RecommendationsKey(u)
            out == PersonalizedRecommendations(
                       u, limit, CacheGet(key, fault = "cache_get"), kg,
                       DbFault(fault), handlerDb)
        IN  /\ resp = NoResp
            /\ handlerDb => out.path = "except"
            /\ cache' = IF out.cacheWrite.write
                        THEN CacheSet(key, out.cacheWrite.val, fault = "cache_set")
                        ELSE cache
            /\ resp' = [op |-> "personalized", user_id |-> u, category |-> "",
                        limit |-> limit, raised |-> out.exc, result |-> out.val,
                        path |-> out.path,
                        cachedEntry |-> (cUp /\ key \in DOMAIN cache),
                        graphEmpty |-> (out.path = "miss" /\ kg = <<>>),
                        failed |-> out.failed]
            /\ UNCHANGED <<relVars, intVars, graphVars, upVars, keyed, aged, acctVars, reqVars, ret>>

\* get_personalized_recommendations with any one of the faults, or none
GetPersonalized(u, limit) == PersonalizedRequest(u, limit, Faults)

\* A call of get_category_recommendations as one step, with its cache write
GetCategory(u, c, limit) ==
    \E fault \in {"none", "cache_get", "cache_set", "db_user"} :
    \E rows \in GetProductsByCategory(c, limit * 2) :
        LET key == CategoryRecommendationsKey(u, c)
            out == CategoryRecommendations(
                       u, c, limit, CacheGet(key, fault = "cache_get"), rows,
                       fault = "db_user")
        IN  /\ resp = NoResp
            /\ cache' = IF out.cacheWrite.write
                        THEN CacheSet(key, out.cacheWrite.val, fault = "cache_set")
                        ELSE cache
            /\ resp' = [op |-> "category", user_id |-> u, category |-> c,
                        limit |-> limit, raised |-> out.exc, result |-> out.val,
                        path |-> out.path,
                        cachedEntry |-> (cUp /\ key \in DOMAIN cache),
                        graphEmpty |-> FALSE, failed |-> out.failed]
            /\ UNCHANGED <<relVars, intVars, graphVars, upVars, keyed, aged, acctVars, reqVars, ret>>

\* A call of get_trending_recommendations as one step, with its cache write
GetTrending(limit) ==
    \E fault \in {"none", "cache_get", "cache_set", "graph", "db_product"} :
    \E kg \in KgTrendingProducts(limit, fault = "graph") :
        LET out == TrendingRecommendations(
                       limit, CacheGet(TrendingKey, fault = "cache_get"), kg,
                       fault = "db_product")
        IN  /\ resp = NoResp
            /\ cache' = IF out.cacheWrite.write
                        THEN CacheSet(TrendingKey, out.cacheWrite.val, fault = "cache_set")
                        ELSE cache
            /\ resp' = [op |-> "trending", user_id |-> "", category |-> "",
                        limit |-> limit, raised |-> out.exc, result |-> out.val,
                        path |-> out.path,
                        cachedEntry |-> (cUp /\ TrendingKey \in DOMAIN cache),
                        graphEmpty |-> (out.path = "miss" /\ kg = <<>>),
                        failed |-> out.failed]
            /\ UNCHANGED <<relVars, intVars, graphVars, upVars, keyed, aged, acctVars, reqVars, ret>>

\* A call of get_similar_user_recommendations as one step; it uses no cache
GetSimilar(u, limit) ==
    \E fault \in {"none", "graph", "db_user"} :
    \E kg \in KgSimilarUsers(u, SimilarUsersLimit, fault = "graph") :
    \E entries \in SimilarEntries(u, kg) :
        LET out == SimilarUserRecommendations(u, limit, kg, entries, fault = "db_user")
        IN  /\ resp = NoResp
            /\ resp' = [op |-> "similar", user_id |-> u, category |-> "",
                        limit |-> limit, raised |-> out.exc, result |-> out.val,
                        path |-> out.path, cachedEntry |-> FALSE,
                        graphEmpty |-> (kg = <<>>), failed |-> out.failed]
            /\ UNCHANGED <<relVars, intVars, graphVars, upVars, keyed, aged, acctVars, reqVars, ret, cache>>

\* The caller has taken the list that the service returned (the endpoint
\* returns it to the client). The stores are as the call left them until then.
ReturnResponse ==
    /\ resp # NoResp
    /\ resp' = NoResp
    /\ UNCHANGED <<relVars, intVars, graphVars, upVars, keyed, aged, acctVars, reqVars, ret, cache>>

\* ---- direct calls of the cache service
\* the keys and patterns the direct calls are exercised with
CacheKeys == {"ns:a", "ns:b", "nt:a"}

Patterns == {"ns:*", "nt:*"}

dataVars == <<relVars, intVars, graphVars, upVars, keyed, aged, acctVars, reqVars, resp>>

\* cache_service.set(key, value, ttl); fails: the access to the store raises
SetCall(key, value) ==
    /\ ret = NoRet
    /\ \E fails \in BOOLEAN :
        /\ cache' = CacheSet(key, Serialize(value), fails \/ SerializeRaises(value))
        /\ ret' = [NoRet EXCEPT !.op = "set", !.key = key, !.sent = value,
                                !.ok = SetReturns(value, fails), !.failed = fails]
    /\ UNCHANGED dataVars

\* cache_service.get(key), as the next call or right after a set
GetCall(key) ==
    /\ ret.op \in {"none", "set"}
    /\ \E fails \in BOOLEAN :
        ret' = [NoRet EXCEPT !.op = IF ret.op = "set" /\ ret.ok /\ ret.key = key
                                    THEN "set_get" ELSE "get",
                             !.key = key, !.sent = ret.sent,
                             !.value = GetReturns(key, fails), !.failed = fails,
                             !.before = DOMAIN cache \cap {key}]
    /\ UNCHANGED <<dataVars, cache>>

\* cache_service.delete(key)
DeleteCall(key) ==
    /\ ret = NoRet
    /\ \E fails \in BOOLEAN :
        /\ cache' = IF DeleteReturns(key, fails)
                     THEN [k \in DOMAIN cache \ {key} |-> cache[k]] ELSE cache
        /\ ret' = [NoRet EXCEPT !.op = "delete", !.key = key,
                                !.ok = DeleteReturns(key, fails), !.failed = fails,
                                !.before = DOMAIN cache \cap {key}]
    /\ UNCHANGED dataVars

\* cache_service.delete_pattern(pattern): KEYS, then DEL of what KEYS found
DeletePatternCall(pattern) ==
    /\ ret = NoRet
    /\ \E fails \in BOOLEAN :
        LET gone == DeletePatternKeys(pattern, fails)
        IN /\ cache' = [k \in DOMAIN cache \ gone |-> cache[k]]
           /\ ret' = [NoRet EXCEPT !.op = "delete_pattern", !.key = pattern,
                                   !.count = Cardinality(gone), !.failed = fails,
                                   !.before = PatternKeys(pattern)]
    /\ UNCHANGED dataVars

\* ---- per-user cached data and its invalidation
\* the key types of the per-user helpers cache_user_recommendations,
\* cache_category_recommendations, cache_user_interests,
\* cache_user_spending_summary and cache_similar_users
UserKeyTypes == {"recommendations", "category_recommendations", "interests",
                 "spending_summary", "similar_users"}

\* the key a per-user helper stores under
UserKey(t, u) ==
    IF t = "category_recommendations"
    THEN GetKeyCategory(t, u, "electronics")
    ELSE GetKey(t, u)

\* cache_key of the endpoint get_user_analytics
AnalyticsUserKey(u) == "marketing_app:analytics:user:" \o u

\* the payloads: a list and a dict that name the user they were computed for
UserData(u) == ListValue(<<[kind |-> "str", repr |-> u]>>)

UserAnalytics(u) == DictValue({<<[kind |-> "str", repr |-> "user_id"], [kind |-> "str", repr |-> u]>>})

\* Python truthiness of what get returned
TruthyValue(value) ==
    CASE value.kind = "list" -> value.items # <<>>
      [] value.kind = "dict" -> value.map # {}
      [] value.kind = "none" -> FALSE
      [] OTHER -> TRUE

\* one of the per-user helpers cache_*(user_id, data): set under the user's key
CacheUserData(t, u) ==
    /\ resp = NoResp
    /\ ret = NoRet
    /\ \E fails \in BOOLEAN :
        /\ cache' = CacheSet(UserKey(t, u), Serialize(UserData(u)), fails)
        /\ ret' = [NoRet EXCEPT !.op = "cache_" \o t, !.key = UserKey(t, u),
                                !.sent = UserData(u),
                                !.ok = SetReturns(UserData(u), fails), !.failed = fails]
    /\ UNCHANGED dataVars

\* GET /analytics/users/{user_id}: 404 for an unknown user, the cached analytics
\* when there are any, else the analytics computed and stored for 30 minutes
GetUserAnalytics(u) ==
    /\ resp = NoResp
    /\ ret = NoRet
    /\ \E getFails \in BOOLEAN, setFails \in BOOLEAN :
        LET key == AnalyticsUserKey(u)
            cached == GetReturns(key, getFails)
        IN IF u \notin users
           THEN /\ ret' = [NoRet EXCEPT !.op = "analytics", !.key = key, !.raised = TRUE]
                /\ cache' = cache
           ELSE IF TruthyValue(cached)
           THEN /\ ret' = [NoRet EXCEPT !.op = "analytics", !.key = key, !.value = cached,
                                        !.failed = getFails]
                /\ cache' = cache
           ELSE /\ ret' = [NoRet EXCEPT !.op = "analytics", !.key = key,
                                        !.value = UserAnalytics(u),
                                        !.sent = UserAnalytics(u),
                                        !.ok = SetReturns(UserAnalytics(u), setFails),
                                        !.failed = getFails \/ setFails]
                /\ cache' = CacheSet(key, Serialize(UserAnalytics(u)), setFails)
    /\ UNCHANGED dataVars

\* the patterns of CacheService.invalidate_user_cache
InvalidatePatterns(u) == {"marketing_app:" \o t \o ":" \o u \o "*" : t \in UserKeyTypes}

\* every key that holds data computed for user u
UserDataKeys(u) == {UserKey(t, u) : t \in UserKeyTypes} \cup {AnalyticsUserKey(u)}

\* CacheService.invalidate_user_cache(user_id): delete_pattern for each of the
\* five patterns, the counts added up; failing: the pattern whose access raises,
\* if one does
InvalidateUserCache(u) ==
    /\ resp = NoResp
    /\ ret = NoRet
    /\ \E failing \in {{}} \cup {{p} : p \in InvalidatePatterns(u)} :
        LET gone == UNION {DeletePatternKeys(p, p \in failing) : p \in InvalidatePatterns(u)}
        IN /\ cache' = [k \in DOMAIN cache \ gone |-> cache[k]]
           /\ ret' = [NoRet EXCEPT !.op = "invalidate", !.key = u,
                                   !.count = Cardinality(gone),
                                   !.failed = failing # {},
                                   !.before = DOMAIN cache \cap UserDataKeys(u)]
    /\ UNCHANGED dataVars

\* the caller has its answer
ReturnCall ==
    /\ ret # NoRet
    /\ ret' = NoRet
    /\ UNCHANGED <<dataVars, cache>>

\* A key's TTL runs out (setex): the entry disappears
CacheExpire(key) ==
    /\ resp = NoResp
    /\ ret = NoRet
    /\ key \in DOMAIN cache
    /\ cache' = [k \in DOMAIN cache \ {key} |-> cache[k]]
    /\ resp' = resp
    /\ UNCHANGED <<relVars, intVars, graphVars, upVars, keyed, aged, acctVars, reqVars, ret>>

\* DELETE /cache/all: delete_pattern("marketing_app:*"); every key of the
\* application starts with that prefix
FlushAllCache ==
    /\ resp = NoResp
    /\ cUp
    /\ cache # <<>>
    /\ cache' = <<>>
    /\ resp' = resp
    /\ UNCHANGED <<relVars, intVars, graphVars, upVars, keyed, aged, acctVars, reqVars, ret>>

\* add_user_interest up to and including the duplicate lookup: validation (a
\* score outside [0,1] raises and nothing is stored), then find_duplicate_interest.
AddInterestLookup(u, c, v, score) ==
    /\ Len(calls) < MaxInterestCalls
    /\ LET dups == DuplicateInterests(u, c, v)
           inFlight == {i \in DOMAIN calls : calls[i].pc = "write"}
       IN  \E existing \in IF dups = {} THEN {NoInterest}
                           ELSE {[found |-> TRUE, id |-> r.id,
                                  confidence_score |-> r.confidence_score] : r \in dups} :
             calls' = IF ~ValidConfidence(score)
                      THEN Append(calls,
                              [user_id |-> u, interest_category |-> c,
                               interest_value |-> v, confidence_score |-> score,
                               pc |-> "rejected", existing |-> NoInterest,
                               overlapped |-> FALSE])
                      ELSE Append(
                              [i \in DOMAIN calls |->
                                  IF i \in inFlight
                                  THEN [calls[i] EXCEPT !.overlapped = TRUE]
                                  ELSE calls[i]],
                              [user_id |-> u, interest_category |-> c,
                               interest_value |-> v, confidence_score |-> score,
                               pc |-> "write", existing |-> existing,
                               overlapped |-> inFlight # {}])
    /\ resp' = resp
    /\ UNCHANGED <<relVars, interests, nextInterest, graphVars, upVars, keyed, aged, acctVars, reqVars, ret, cache>>

\* The rest of add_user_interest: the update of the row that the lookup found,
\* or the insert of a new row and its edge in the graph.
AddInterestWrite(i) ==
    /\ i \in DOMAIN calls
    /\ calls[i].pc = "write"
    /\ LET call == calls[i]
           updates == call.existing.found
                        /\ \E r \in interests : r.id = call.existing.id
       IN  /\ interests' =
                 IF updates
                 THEN UpdateConfidenceScore(interests, call.existing.id,
                          NewScore(call.existing.confidence_score, call.confidence_score))
                 ELSE CreateInterest(interests, nextInterest + 1, call)
           /\ nextInterest' = IF updates THEN nextInterest ELSE nextInterest + 1
           /\ gInterests' = IF updates THEN gInterests
                            ELSE CreateInterestRelationship(gInterests, call)
    /\ calls' = [calls EXCEPT ![i].pc = "done"]
    /\ resp' = resp
    /\ UNCHANGED <<relVars, gUsers, gProducts, gPurchases, syncs, upVars, keyed, aged, acctVars, reqs, ret, cache>>
    /\ last' = NoResp

\* UserInterestService.analyze_purchase_interests(db, user_id): the purchases are
\* read and counted by category, and add_user_interest is called for each
\* category with at least two purchases and a mapped interest category.  The
\* Counter holds at most one category, so the loop runs at most once.  A failing
\* read ends in the outer handler, which returns [].
AnalyzePurchaseInterests(u) ==
    /\ resp = NoResp
    /\ ret = NoRet
    /\ \E dbFails \in BOOLEAN :
        LET read == GetUserPurchases(u, dbFails)
            rows == IF read.exc THEN EmptyBag
                    ELSE [r \in read.val |-> CopiesIn(r, purchases)]
            gen == IF read.exc THEN {} ELSE GeneratedCategories(rows)
        IN  /\ Cardinality(gen) <= 1
            /\ IF gen = {}
               THEN UNCHANGED <<interests, nextInterest, gInterests>>
               ELSE LET call == GeneratedInterest(u, rows, CHOOSE c \in gen : TRUE)
                        dups == DuplicateInterests(u, call.interest_category,
                                                   call.interest_value)
                    IN  \E existing \in IF dups = {} THEN {NoInterest}
                                        ELSE {[found |-> TRUE, id |-> r.id,
                                               confidence_score |-> r.confidence_score] :
                                                  r \in dups} :
                          /\ interests' =
                               IF existing.found
                               THEN UpdateConfidenceScore(interests, existing.id,
                                        NewScore(existing.confidence_score,
                                                 call.confidence_score))
                               ELSE CreateInterest(interests, nextInterest + 1, call)
                          /\ nextInterest' = IF existing.found THEN nextInterest
                                             ELSE nextInterest + 1
                          /\ gInterests' = IF existing.found THEN gInterests
                                           ELSE CreateInterestRelationship(gInterests, call)
            /\ ret' = [NoRet EXCEPT !.op = "analyze", !.key = u,
                                    !.count = Cardinality(gen), !.failed = dbFails]
    /\ UNCHANGED <<relVars, calls, gUsers, gProducts, gPurchases, syncs, upVars, keyed, aged, acctVars, reqs, resp, cache>>
    /\ last' = NoResp

\* UserInterestService.update_interest_confidence(db, interest_id, new_score):
\* BaseRepository.update sets the column and commits, None when there is no such
\* row; UserInterest.model_validate of the committed row then raises for a score
\* outside [0,1].  The score is not validated before the write.
UpdateInterestConfidence(id, score) ==
    /\ resp = NoResp
    /\ ret = NoRet
    /\ LET found == \E r \in interests : r.id = id
       IN  /\ interests' = IF found THEN UpdateConfidenceScore(interests, id, score)
                           ELSE interests
           /\ ret' = [NoRet EXCEPT !.op = "update_confidence", !.count = id,
                                   !.ok = found,
                                   !.raised = found /\ ~ValidConfidence(score)]
    /\ UNCHANGED <<relVars, nextInterest, calls, graphVars, upVars, keyed, aged, acctVars, reqs, resp, cache>>
    /\ last' = NoResp

\* ProductService.create_product(db, product_data) with any price:
\* validate_product_data raises for a price that is not above 0 and nothing is
\* stored; else the row is created
CreateProductRequest(c, price) ==
    /\ resp = NoResp
    /\ ret = NoRet
    /\ nextProduct < MaxProducts
    /\ IF ValidPrice(price)
       THEN /\ nextProduct' = nextProduct + 1
            /\ products' = Append(products, NewProduct(c, price))
       ELSE UNCHANGED <<nextProduct, products>>
    /\ ret' = [NoRet EXCEPT !.op = "create_product", !.count = price,
                            !.ok = ValidPrice(price), !.raised = ~ValidPrice(price)]
    /\ UNCHANGED <<users, purchases, intVars, graphVars, upVars, keyed, aged, acctVars, reqs, resp, cache>>
    /\ last' = NoResp

\* ProductService.update_product(db, product_id, {"price": price}):
\* BaseRepository.update sets the column and commits, None when there is no such
\* row; Product.model_validate of the committed row then raises for a price that
\* is not above 0.  update_data is not validated before the write.
UpdateProduct(pid, price) ==
    /\ resp = NoResp
    /\ ret = NoRet
    /\ products' = [i \in DOMAIN products |->
                       IF products[i].id = pid
                       THEN [products[i] EXCEPT !.price = price]
                       ELSE products[i]]
    /\ ret' = [NoRet EXCEPT !.op = "update_product", !.count = price,
                            !.ok = ProductExists(pid),
                            !.raised = ProductExists(pid) /\ ~ValidPrice(price)]
    /\ UNCHANGED <<users, nextProduct, purchases, intVars, graphVars, upVars, keyed, aged, acctVars, reqs, resp, cache>>
    /\ last' = NoResp

\* create_user up to and including the lookup: validate_user_data, then
\* get_by_email; an email that is found raises ValidationError
CreateUserLookup(email) ==
    /\ Len(userCalls) < MaxUserCalls
    /\ LET v == ValidatedEmail(email)
           inFlight == {i \in DOMAIN userCalls : userCalls[i].pc = "insert"}
       IN  userCalls' =
             IF GetByEmail(v) # {}
             THEN Append(userCalls, [email |-> email, pc |-> "rejected",
                                     error |-> "validation", overlapped |-> FALSE])
             ELSE Append([i \in DOMAIN userCalls |->
                             IF i \in inFlight
                             THEN [userCalls[i] EXCEPT !.overlapped = TRUE]
                             ELSE userCalls[i]],
                         [email |-> email, pc |-> "insert", error |-> "none",
                          overlapped |-> inFlight # {}])
    /\ UNCHANGED <<relVars, intVars, graphVars, upVars, keyed, aged, reqVars, resp, ret, cache, emails>>

\* The rest of create_user: the insert of the row, rejected by the unique index
\* when another call has stored the email since the lookup
CreateUserInsert(i) ==
    /\ i \in DOMAIN userCalls
    /\ userCalls[i].pc = "insert"
    /\ Cardinality(users) < Len(UserOrder)
    /\ LET id == UserOrder[Cardinality(users) + 1]
           ins == InsertUser(emails, id, ValidatedEmail(userCalls[i].email))
       IN  /\ emails' = ins.val
           /\ users' = IF ins.exc THEN users ELSE users \cup {id}
           /\ userCalls' = [userCalls EXCEPT
                               ![i].pc = IF ins.exc THEN "rejected" ELSE "done",
                               ![i].error = IF ins.exc THEN "integrity" ELSE "none"]
    /\ UNCHANGED <<products, nextProduct, purchases, intVars, graphVars, upVars, keyed, aged,
                   reqs, resp, ret, cache>>
    /\ last' = NoResp

\* ---- calls of _get_key
\* the key types and identifiers the calls are made with
KeyTypes == {"category_recommendations", "product_search"}

\* a call of CacheService._get_key; the call before it is remembered
GetKeyCall(key_type, identifier, kw) ==
    /\ resp = NoResp
    /\ ret = NoRet
    /\ keyed' = [key_type |-> key_type, identifier |-> identifier, kwargs |-> kw,
                 key |-> GetKeyKwargs(key_type, identifier, kw),
                 prev |-> [key_type |-> keyed.key_type, identifier |-> keyed.identifier,
                           kwargs |-> keyed.kwargs, key |-> keyed.key]]
    /\ UNCHANGED <<relVars, intVars, graphVars, upVars, aged, acctVars, reqVars, resp, ret, cache>>

\* ---- get_personalized_recommendations called while another call is in flight
\* the first part of a call, lines 30-68: the cache lookup and, on a miss, the
\* list computed from the stores as they are now. The call remembers the key's
\* presence, the emptiness of the graph answer and the purchases it saw.
BeginPersonalized(u, limit) ==
    \E kg \in KgUserRecommendations(u, limit, FALSE) :
        LET key == RecommendationsKey(u)
            out == PersonalizedRecommendations(
                       u, limit, CacheGet(key, FALSE), kg, "none", FALSE)
        IN  /\ resp = NoResp
            /\ Len(reqs) < MaxInFlight
            /\ reqs' = Append(reqs,
                   [user_id |-> u, limit |-> limit, pc |-> "computed", out |-> out,
                    cachedEntry |-> (cUp /\ key \in DOMAIN cache),
                    graphEmpty |-> (out.path = "miss" /\ kg = <<>>),
                    seen |-> purchases,
                    before |-> [found |-> FALSE, val |-> <<>>]])
            /\ UNCHANGED <<relVars, intVars, graphVars, upVars, keyed, aged, acctVars, last, resp, ret, cache>>

\* the second part of the call, lines 70-75: cache_user_recommendations with the
\* list the call computed, then the list is returned. before: what the key held
\* when the write arrived.
FinishPersonalized(i) ==
    /\ i \in DOMAIN reqs
    /\ LET r == reqs[i]
           key == RecommendationsKey(r.user_id)
       IN
        /\ resp = NoResp
        /\ r.pc = "computed"
        /\ cache' = IF r.out.cacheWrite.write
                    THEN CacheSet(key, r.out.cacheWrite.val, FALSE)
                    ELSE cache
        /\ resp' = [op |-> "personalized", user_id |-> r.user_id, category |-> "",
                    limit |-> r.limit, raised |-> r.out.exc, result |-> r.out.val,
                    path |-> r.out.path, cachedEntry |-> r.cachedEntry,
                    graphEmpty |-> r.graphEmpty, failed |-> r.out.failed]
        /\ reqs' = [reqs EXCEPT ![i].pc = "returning", ![i].before = CacheGet(key, FALSE)]
        /\ UNCHANGED <<relVars, intVars, graphVars, upVars, keyed, aged, acctVars, last, ret>>

\* the caller of the finished call has taken its list
ReturnFlight ==
    /\ resp # NoResp
    /\ \E i \in DOMAIN reqs : reqs[i].pc = "returning"
    /\ resp' = NoResp
    /\ reqs' = SelectSeq(reqs, LAMBDA r : r.pc # "returning")
    /\ UNCHANGED <<relVars, intVars, graphVars, upVars, keyed, aged, acctVars, last, ret, cache>>

\* The client has taken the list and keeps it to compare the next answer with;
\* a write to the relational or graph store makes it forget the list
ReturnAndRemember ==
    /\ resp # NoResp
    /\ resp' = NoResp
    /\ last' = resp
    /\ UNCHANGED <<relVars, intVars, graphVars, upVars, keyed, aged, acctVars, reqs, ret, cache>>

\* -------------------------------------------------------- specifications
\* The personalized recommendation path over the three stores.
Next ==
    \/ \E u \in UserIds : CreateUser(u)
    \/ \E c \in {"electronics"} : CreateProduct(c)
    \/ \E pid \in ProductIds : DeleteProduct(pid)
    \/ \E u \in UserIds, pid \in ProductIds : AddPurchase(u, pid)
    \/ SyncGraph
    \/ \E u \in RequestUsers, limit \in Limits : GetPersonalized(u, limit)
    \/ \E key \in DOMAIN cache : CacheExpire(key)
    \/ FlushAllCache
    \/ ReturnResponse

Spec == Init /\ [][Next]_vars

\* The category recommendation path over the relational store and the cache:
\* purchases and category requests over a growing catalog.
NextCategory ==
    \/ \E u \in UserIds : CreateUser(u)
    \/ \E c \in ProductCategory : CreateProduct(c)
    \/ \E u \in UserIds, pid \in ProductIds : AddPurchase(u, pid)
    \/ \E u \in RequestUsers, c \in {"electronics"}, limit \in Limits :
          GetCategory(u, c, limit)
    \/ \E key \in DOMAIN cache : CacheExpire(key)
    \/ FlushAllCache
    \/ ReturnResponse

SpecCategory == Init /\ [][NextCategory]_vars

\* The four recommendation operations over the three stores, each with its
\* collaborators failing or not.
NextReads ==
    \/ SeedDatabase
    \/ \E u \in RequestUsers, limit \in Limits : GetPersonalized(u, limit)
    \/ \E u \in RequestUsers, c \in {"electronics"}, limit \in Limits :
          GetCategory(u, c, limit)
    \/ \E limit \in Limits : GetTrending(limit)
    \/ \E u \in RequestUsers, limit \in Limits : GetSimilar(u, limit)
    \/ ReturnResponse

SpecReads == Init /\ [][NextReads]_vars

\* Concurrent add_user_interest requests over the interest rows and the graph.
NextInterest ==
    \/ \E u \in UserIds : CreateUser(u)
    \/ SyncGraph
    \/ \E u \in UserIds, c \in InterestCategory, v \in InterestValues,
          score \in SubmittedScores : AddInterestLookup(u, c, v, score)
    \/ \E i \in DOMAIN calls : AddInterestWrite(i)

SpecInterest == Init /\ [][NextInterest]_vars

\* Purchases arriving in a running system: users and products are created,
\* purchases are added, the seed script may run, and requests for similar-user
\* recommendations (which read the purchase edges) keep being served.  A handler
\* that has started runs to its end and the server keeps answering, so the
\* system does not stop; nothing schedules the seed script, it is started by hand.
NextLive ==
    \/ \E u \in UserIds : CreateUser(u)
    \/ \E c \in ProductCategory : CreateProduct(c)
    \/ \E u \in UserIds, pid \in ProductIds : AddPurchase(u, pid)
    \/ SyncGraph
    \/ SeedDatabase
    \/ \E u \in RequestUsers : GetSimilar(u, MaxLimit)
    \/ ReturnResponse

SpecLive == Init /\ [][NextLive]_vars /\ WF_vars(NextLive)

\* Interest inference: users, products and purchases are created and the
\* purchase history of a user is analysed.
NextAnalysis ==
    \/ \E u \in UserIds : CreateUser(u)
    \/ \E c \in ProductCategory : CreateProduct(c)
    \/ \E u \in UserIds, pid \in ProductIds : AddPurchase(u, pid)
    \/ \E u \in UserIds : AnalyzePurchaseInterests(u)
    \/ ReturnCall

SpecAnalysis == Init /\ [][NextAnalysis]_vars

\* Interests are added and their confidence is updated afterwards.
NextConfidence ==
    \/ \E u \in UserIds : CreateUser(u)
    \/ \E u \in RequestUsers, c \in InterestCategory, v \in InterestValues,
          score \in SubmittedScores : AddInterestLookup(u, c, v, score)
    \/ \E i \in 1..MaxInterestCalls : AddInterestWrite(i)
    \/ \E id \in 1..MaxInterestCalls, score \in SubmittedScores :
          UpdateInterestConfidence(id, score)
    \/ ReturnCall

SpecConfidence == Init /\ [][NextConfidence]_vars

\* The product catalogue: products are created, updated and deleted.
NextProducts ==
    \/ \E c \in ProductCategory, price \in SubmittedPrices : CreateProductRequest(c, price)
    \/ \E pid \in ProductIds, price \in SubmittedPrices : UpdateProduct(pid, price)
    \/ \E pid \in ProductIds : DeleteProduct(pid)
    \/ ReturnCall

SpecProducts == Init /\ [][NextProducts]_vars

\* User registration: create_user calls, which may overlap.
NextUsers ==
    \/ \E email \in SubmittedEmails : CreateUserLookup(email)
    \/ \E i \in 1..MaxUserCalls : CreateUserInsert(i)

SpecUsers == Init /\ [][NextUsers]_vars

\* Repeated requests of one client: the stores are seeded, purchases are added,
\* the user's recommendations are requested again and again, and the cache entry
\* runs out or is invalidated in between.  No access to a store fails; the graph
\* store and the cache are up or down for the whole run.
NextRepeat ==
    \/ SeedDatabase
    \/ \E u \in UserIds, pid \in ProductIds : AddPurchase(u, pid)
    \/ \E u \in RequestUsers, limit \in Limits : PersonalizedRequest(u, limit, {"none"})
    \/ \E u \in RequestUsers : CacheExpire(RecommendationsKey(u))
    \/ \E u \in RequestUsers : InvalidateUserCache(u)
    \/ ReturnCall
    \/ ReturnAndRemember

SpecRepeat == Init /\ [][NextRepeat]_vars

\* Requests of one user that overlap with each other, with purchases and with
\* the invalidation of the user's cache entries.
NextFlight ==
    \/ SeedDatabase
    \/ \E u \in UserIds, pid \in ProductIds : AddPurchase(u, pid)
    \/ \E u \in RequestUsers, limit \in Limits : BeginPersonalized(u, limit)
    \/ \E i \in 1..MaxInFlight : FinishPersonalized(i)
    \/ ReturnFlight
    \/ \E u \in RequestUsers : InvalidateUserCache(u)
    \/ ReturnCall

SpecFlight == Init /\ [][NextFlight]_vars

\* Calls of _get_key, one after the other.
NextKeys ==
    \E key_type \in KeyTypes, identifier \in RequestUsers, kw \in Kwargs :
        GetKeyCall(key_type, identifier, kw)

SpecKeys == Init /\ [][NextKeys]_vars

\* Requests while the cache accepts every write it is sent: any fault but a
\* failing cache write.
NextWrite ==
    \/ SeedDatabase
    \/ \E u \in UserIds, pid \in ProductIds : AddPurchase(u, pid)
    \/ \E u \in RequestUsers, limit \in Limits :
          PersonalizedRequest(u, limit, Faults \ {"cache_set"})
    \/ \E u \in RequestUsers : CacheExpire(RecommendationsKey(u))
    \/ ReturnResponse

SpecWrite == Init /\ [][NextWrite]_vars

\* Similar-user recommendations for a user whose purchase history grows.
NextSimilar ==
    \/ SeedDatabase
    \/ \E u \in UserIds, pid \in ProductIds : AddPurchase(u, pid)
    \/ \E u \in RequestUsers, pid \in ProductIds : IngestPurchases(u, pid)
    \/ \E u \in RequestUsers, limit \in Limits : GetSimilar(u, limit)
    \/ ReturnResponse

SpecSimilar == Init /\ [][NextSimilar]_vars

\* user ids of which one is the beginning of the other (the service methods
\* and DELETE /cache/users/{user_id} take any string)
PrefixUsers == {"u1", "u12"}

\* Per-user entries of such users, and their invalidation.
NextFrame ==
    \/ \E t \in UserKeyTypes, u \in PrefixUsers : CacheUserData(t, u)
    \/ \E u \in PrefixUsers : InvalidateUserCache(u)
    \/ ReturnCall

SpecFrame == Init /\ [][NextFrame]_vars

\* Requests with different limits; the client forgets the response it
\* remembers when a store is written.
NextLimits ==
    \/ \E u \in UserIds : CreateUser(u)
    \/ \E c \in {"electronics"} : CreateProduct(c)
    \/ \E u \in UserIds, pid \in ProductIds : AddPurchase(u, pid)
    \/ SyncGraph
    \/ \E u \in RequestUsers, limit \in Limits : PersonalizedRequest(u, limit, {"none"})
    \/ \E u \in RequestUsers : CacheExpire(RecommendationsKey(u))
    \/ ReturnAndRemember

SpecLimits == Init /\ [][NextLimits]_vars

\* The cache service called directly: set, get, delete and delete_pattern on a
\* few keys, with entries running out of their TTL.
NextCache ==
    \/ \E k \in CacheKeys, v \in Values : SetCall(k, v)
    \/ \E k \in CacheKeys : GetCall(k)
    \/ \E k \in CacheKeys : DeleteCall(k)
    \/ \E p \in Patterns : DeletePatternCall(p)
    \/ \E k \in CacheKeys : CacheExpire(k)
    \/ ReturnCall

SpecCache == Init /\ [][NextCache]_vars

\* Per-user cached data: the per-user helpers and the user analytics endpoint fill
\* the cache, invalidate_user_cache empties it.
NextInvalidate ==
    \/ \E u \in UserIds : CreateUser(u)
    \/ \E t \in UserKeyTypes, u \in UserIds : CacheUserData(t, u)
    \/ \E u \in UserIds : GetUserAnalytics(u)
    \/ \E u \in UserIds : InvalidateUserCache(u)
    \/ ReturnCall

SpecInvalidate == Init /\ [][NextInvalidate]_vars

\* ------------------------------------------------------------------ claims
\* The product ids the user has bought, read from the purchase rows.
Bought(u) == {p.product_id : p \in {q \in BagToSet(purchases) : q.user_id = u}}

\* The ids of the n most recently created products of the catalog.
Newest(n) == {products[i].id : i \in {j \in DOMAIN products : j > Len(products) - n}}

\* The product ids of a list of recommendations.
Ids(list) == {list[i].product_id : i \in DOMAIN list}

\* A response of get_personalized_recommendations is being returned.
Personalized == resp.op = "personalized"

\* C1: for every user id, limit N and state of the stores (graph up or down,
\* cache hit or miss, normal or exception path), the list that
\* get_personalized_recommendations(user, N) returns has at most N entries.
C1_AtMostLimit == Personalized => Len(resp.result) <= resp.limit

\* C1's case: a cache hit on a stored list longer than N, answered with N entries.
C1_Witness ==
    /\ Personalized
    /\ resp.path = "hit"
    /\ Len(cache[RecommendationsKey(resp.user_id)]) > resp.limit
    /\ Len(resp.result) = resp.limit

\* The graph query returned nothing for an existing user whose key was not in
\* the cache, the catalog is not empty and no relational read raised.
C2_Case ==
    /\ Personalized
    /\ resp.path = "miss"
    /\ ~resp.cachedEntry
    /\ resp.graphEmpty
    /\ resp.failed = "none"
    /\ products # <<>>

C3_UnknownUserEmpty ==
    (Personalized /\ resp.user_id \notin users) =>
        (~resp.raised /\ resp.result = <<>>)

\* The triples (user, category, value) of the interest requests.
Triples == UserIds \X InterestCategory \X InterestValues

\* The add_user_interest calls on a triple that have written.
DoneCalls(t) ==
    {i \in DOMAIN calls :
        /\ calls[i].pc = "done"
        /\ <<calls[i].user_id, calls[i].interest_category, calls[i].interest_value>> = t}

\* The calls ran one after the other: none looked up while another was between
\* its lookup and its write.
Sequential(S) == \A i \in S : ~calls[i].overlapped

RECURSIVE MaxSubmitted(_)
\* The largest confidence score a set of calls submitted.
MaxSubmitted(S) ==
    IF S = {} THEN 0
    ELSE LET i == CHOOSE x \in S : TRUE
         IN  Max(calls[i].confidence_score, MaxSubmitted(S \ {i}))

\* C4: sequential add_user_interest calls with the same (u, c, v) and scores in
\* [0,1] leave exactly one row for the triple, whose confidence is the largest
\* of the submitted scores (not the latest).
C4_UpsertByMax ==
    \A t \in Triples :
        (DoneCalls(t) # {} /\ Sequential(DoneCalls(t))) =>
            LET rows == DuplicateInterests(t[1], t[2], t[3])
            IN  /\ Cardinality(rows) = 1
                /\ \A r \in rows : r.confidence_score = MaxSubmitted(DoneCalls(t))

\* C4's case: a second call on the triple found the row of the first and
\* submitted a lower score; the row keeps the higher one.
C4_Witness ==
    /\ Len(calls) = 2
    /\ DoneCalls(<<calls[1].user_id, calls[1].interest_category,
                   calls[1].interest_value>>) = {1, 2}
    /\ Sequential({1, 2})
    /\ calls[2].existing.found
    /\ calls[2].confidence_score < calls[1].confidence_score
    /\ \A r \in interests : r.confidence_score = calls[1].confidence_score

\* C5: in every reachable state there is at most one user_interests row per
\* (user, category, value), also when two add_user_interest requests for the
\* triple interleave their lookup and insert steps.
C5_OneRowPerTriple ==
    \A t \in Triples : Cardinality(DuplicateInterests(t[1], t[2], t[3])) <= 1

\* The lists get_personalized_recommendations(u, limit) can return in this
\* state when the cache holds nothing (after DELETE /cache/all).
FreshPersonalized(u, limit) ==
    {PersonalizedRecommendations(u, limit, [found |-> FALSE, val |-> <<>>],
                                 kg, "none", FALSE).val :
        kg \in KgUserRecommendations(u, limit, FALSE)}

\* C6: a full cache flush never changes a response: the list a request gets
\* from the cache is a list the same request gets in that state once the cache
\* has been emptied.
C6_FlushKeepsResponse ==
    (Personalized /\ resp.path = "hit") =>
        resp.result \in FreshPersonalized(resp.user_id, resp.limit)

\* C7: after any sequence of purchases and requests, every item that
\* get_category_recommendations(u, c, N) returns is a product of category c that
\* u has not purchased at the time of the call.
C7_CategoryUnpurchased ==
    resp.op = "category" =>
        \A i \in DOMAIN resp.result :
            /\ \E p \in Range(products) :
                  p.id = resp.result[i].product_id /\ p.category = resp.category
            /\ resp.result[i].product_id \notin Bought(resp.user_id)

\* C8: every product id in a list that get_personalized_recommendations returns
\* is the id of a product in the relational store when the list is returned.
C8_ReturnedProductsExist ==
    Personalized => \A pid \in Ids(resp.result) : ProductExists(pid)

\* C9: the list that get_personalized_recommendations returns is ordered by
\* non-increasing score, also where fallback entries follow graph entries.
C9_NonIncreasingScore ==
    Personalized =>
        \A i, j \in DOMAIN resp.result :
            i < j => resp.result[i].score >= resp.result[j].score

\* C10: on a cache miss for an existing user, a list shorter than N holds
\* every catalog product that the user has not purchased.
C10_ShortOnlyWhenExhausted ==
    (Personalized /\ resp.path = "miss" /\ resp.failed = "none"
        /\ Len(resp.result) < resp.limit) =>
        \A p \in Range(products) :
            p.id \notin Bought(resp.user_id) => p.id \in Ids(resp.result)

\* C11: when a relational read fails during a get_personalized_recommendations
\* request, the failure reaches the caller as an error: the request does not end
\* with a list.
C11_RelationalFailureRaises ==
    (Personalized /\ resp.failed # "none") => resp.raised

\* C12: no failure of the graph store or of the cache leaves a recommendation
\* operation: get_personalized_recommendations, get_category_recommendations,
\* get_trending_recommendations and get_similar_user_recommendations return a
\* list and do not raise, whatever fails during the request.
C12_NoFailureEscapes ==
    resp.op \in {"personalized", "category", "trending", "similar"} =>
        (~resp.raised /\ DOMAIN resp.result = 1..Len(resp.result))

\* C12's case: graph store and cache are both down and the request for
\* recommendations is answered with the fallback list.
C12_Witness ==
    /\ Personalized
    /\ ~gUp /\ ~cUp
    /\ ~resp.raised
    /\ resp.result # <<>>
    /\ \A i \in DOMAIN resp.result : resp.result[i].score = FallbackScore

\* C13: no cache operation raises, and on a store that is unavailable or whose
\* access fails set returns False, get returns the absent value None, delete
\* returns False and delete_pattern returns 0.
C13_CacheNeverRaises ==
    ret.op # "none" =>
        /\ ~ret.raised
        /\ (~cUp \/ ret.failed) =>
            /\ ret.op = "set" => ~ret.ok
            /\ ret.op \in {"get", "set_get"} => ret.value = ScalarValue(PyNone)
            /\ ret.op = "delete" => ~ret.ok
            /\ ret.op = "delete_pattern" => ret.count = 0

\* C13's case: the key is stored, the access of a get fails, and the caller is
\* handed None as for a miss.
C13_Witness ==
    /\ ret.op = "get"
    /\ ret.failed
    /\ ret.key \in DOMAIN cache
    /\ ret.value = ScalarValue(PyNone)
    /\ ~ret.raised

\* C14: a get that follows a successful set of the same key, before the entry
\* expires, returns a value equal to the value that was set.
C14_RoundTrip ==
    (ret.op = "set_get" /\ ~ret.failed) => ret.value = ret.sent

\* C15: on an available cache, delete_pattern("ns:*") removes every key that
\* starts with "ns:": none of them is stored afterwards, a get of any of them
\* returns None, and the count returned is the number of keys removed.
C15_DeletePatternRemovesAll ==
    (ret.op = "delete_pattern" /\ ret.key = "ns:*" /\ cUp /\ ~ret.failed) =>
        /\ \A k \in CacheKeys :
               Matches("ns:*", k) =>
                   (k \notin DOMAIN cache /\ GetReturns(k, FALSE) = ScalarValue(PyNone))
        /\ ret.count = Cardinality(ret.before)

\* C15's case: two keys under "ns:" were stored and removed, the count is 2 and
\* the key outside the namespace is still stored.
C15_Witness ==
    /\ ret.op = "delete_pattern"
    /\ ret.key = "ns:*"
    /\ ret.before = {"ns:a", "ns:b"}
    /\ ret.count = 2
    /\ DOMAIN cache = {"nt:a"}

\* C16: after invalidate_user_cache(u) has returned on an available cache, with
\* none of its accesses failing, no entry holding data computed for u is left:
\* personalized and category recommendations, interests, spending summary,
\* similar users and the user's analytics.
C16_InvalidateRemovesAll ==
    (ret.op = "invalidate" /\ cUp /\ ~ret.failed) =>
        \A k \in UserDataKeys(ret.key) : k \notin DOMAIN cache

\* C17: with the graph store available, every purchase row committed by
\* add_purchase is eventually there as a PURCHASED edge between the same user
\* and product.
C17_PurchaseEventuallyInGraph ==
    \A u \in UserIds, pid \in ProductIds :
        LET row == [user_id |-> u, product_id |-> pid]
        IN (gUp /\ BagIn(row, purchases)) ~> BagIn(row, gPurchases)

\* the purchase rows of user u
PurchasesOf(u) == {r \in BagToSet(purchases) : r.user_id = u}

\* user u's purchase history is three purchases, all of electronics products
ThreeElectronics(u) ==
    /\ BagCardinality([r \in PurchasesOf(u) |-> CopiesIn(r, purchases)]) = 3
    /\ \A r \in PurchasesOf(u) :
           \E i \in DOMAIN products :
               products[i].id = r.product_id /\ products[i].category = "electronics"

\* C18: when analyze_purchase_interests has run for a user whose history is three
\* purchases of electronics products, it has yielded exactly one interest, and
\* the user's one inferred row has category "technology" and the confidence of
\* three purchases, 3 * 0.1.
C18_ElectronicsYieldsTechnology ==
    (ret.op = "analyze" /\ ~ret.failed /\ ThreeElectronics(ret.key)) =>
        /\ ret.count = 1
        /\ \E r \in interests :
               /\ r.user_id = ret.key
               /\ r.interest_category = "technology"
               /\ r.confidence_score = AnalysisConfidence(3)
               /\ \A q \in interests : q.user_id = ret.key => q = r

\* C19: every stored interest has a confidence score in [0,1]; a score outside
\* the range is rejected by add_user_interest and by update_interest_confidence
\* and changes no row.
C19_StoredConfidenceInRange ==
    \A r \in interests : ValidConfidence(r.confidence_score)

\* C20: every stored product has a price above 0; a price of 0 or below is
\* rejected by create_product and by update_product and changes no row.
C20_StoredPricePositive ==
    \A i \in DOMAIN products : ValidPrice(products[i].price)

Repeated ==
    /\ Personalized
    /\ last.op = "personalized"
    /\ last.user_id = resp.user_id
    /\ last.limit = resp.limit
    /\ last.failed = "none" /\ resp.failed = "none"
    /\ last.path # "except" /\ resp.path # "except"

\* C22: the second of two such requests returns the list the first returned,
\* whether it is served from the cache or recomputed, and it does not raise.
C22_RepeatIdentical ==
    Repeated => (resp.result = last.result /\ ~resp.raised)

\* ------------------------------------------------------------------- C23
\* the call whose list is being returned
Returning == {i \in DOMAIN reqs : reqs[i].pc = "returning"}

\* C23: when a call that missed the cache returns while the cache is available,
\* the entry under the user's key is the list this call computed, whatever
\* another call has written there in the meantime, and the call returns the list
\* it computed itself.
C23_LastWriteWins ==
    \A i \in Returning :
        reqs[i].out.path = "miss" =>
            /\ resp.result = reqs[i].out.val
            /\ cUp => /\ RecommendationsKey(reqs[i].user_id) \in DOMAIN cache
                      /\ cache[RecommendationsKey(reqs[i].user_id)] = reqs[i].out.val

\* Two calls missed, and the one returning now has overwritten the different,
\* non-empty list that the other one had stored since.
C23_Witness ==
    \E i \in Returning :
        /\ reqs[i].out.path = "miss"
        /\ ~reqs[i].cachedEntry
        /\ cUp
        /\ reqs[i].before.found
        /\ reqs[i].before.val # <<>>
        /\ reqs[i].out.val # <<>>
        /\ reqs[i].before.val # reqs[i].out.val
        /\ cache[RecommendationsKey(reqs[i].user_id)] = resp.result
\* ------------------------------------------------------------------- C24
\* the extra parameters of two calls are the same pairs
SameParams(kw1, kw2) ==
    {kw1[i] : i \in DOMAIN kw1} = {kw2[i] : i \in DOMAIN kw2}

\* C24: two calls of _get_key with the same key type, the same identifier and
\* the same extra parameters, in whatever order these are written, produce the
\* same key.
C24_KeyOrderIndependent ==
    (/\ keyed.prev.key # ""
     /\ keyed.prev.key_type = keyed.key_type
     /\ keyed.prev.identifier = keyed.identifier
     /\ SameParams(keyed.prev.kwargs, keyed.kwargs))
        => keyed.key = keyed.prev.key

\* Two calls with the same three extra parameters written in different orders
\* have produced one key.
C24_Witness ==
    /\ keyed.prev.key # ""
    /\ keyed.prev.key_type = keyed.key_type
    /\ keyed.prev.identifier = keyed.identifier
    /\ Len(keyed.kwargs) = Len(ParamOrder)
    /\ SameParams(keyed.prev.kwargs, keyed.kwargs)
    /\ keyed.prev.kwargs # keyed.kwargs
    /\ keyed.key = keyed.prev.key
    /\ keyed.key = "marketing_app:product_search:u1:category=electronics:limit=2:page=None"
\* ------------------------------------------------------------------- C25
\* C25: a request that misses the cache for an existing user while the cache is
\* available leaves, when it returns, the list it returns under the user's key;
\* a request for an unknown user, one that ends in the except handler, and one
\* served from the cache write nothing.
C25_WrittenBeforeReturn ==
    [][(resp = NoResp /\ resp'.op = "personalized") =>
          IF resp'.path = "miss" /\ cUp
          THEN /\ RecommendationsKey(resp'.user_id) \in DOMAIN cache'
               /\ cache'[RecommendationsKey(resp'.user_id)] = resp'.result
          ELSE cache' = cache]_vars

\* A request of an existing user found no entry, computed a non-empty list, and
\* the list is under the user's key while it is being returned.
C25_Witness ==
    /\ Personalized
    /\ resp.path = "miss"
    /\ ~resp.cachedEntry
    /\ cUp
    /\ resp.user_id \in users
    /\ resp.result # <<>>
    /\ cache[RecommendationsKey(resp.user_id)] = resp.result
\* ------------------------------------------------------------------- C26
\* C26: get_similar_user_recommendations(u, N) returns at most N entries, none
\* of them a product that u has purchased, and the entries of an earlier similar
\* user (a higher similarity, hence a higher score) come before those of a later
\* one.
C26_SimilarUnpurchasedInOrder ==
    resp.op = "similar" =>
        /\ Len(resp.result) <= resp.limit
        /\ \A i \in DOMAIN resp.result : resp.result[i].product_id \notin Bought(resp.user_id)
        /\ \A i, j \in DOMAIN resp.result :
              i < j => resp.result[i].score >= resp.result[j].score
\* ------------------------------------------------------------------- C27
\* C27: invalidate_user_cache(u) leaves every entry cached for another user v as
\* it was, also when u is the beginning of v.
C27_OtherUsersKept ==
    [][(ret = NoRet /\ ret'.op = "invalidate") =>
          \A v \in (UserIds \cup PrefixUsers) \ {ret'.key} :
              \A k \in UserDataKeys(v) \cap DOMAIN cache :
                  k \in DOMAIN cache' /\ cache'[k] = cache[k]]_vars
\* ------------------------------------------------------------------- C28
\* C28: a request with limit N that follows a request of the same user with a
\* smaller limit M, which found no entry and computed its list, with no store
\* write in between, returns a list it returns in the run without the earlier
\* request (the list computed from the stores).
C28_EarlierLimitIrrelevant ==
    (/\ Personalized
     /\ last.op = "personalized"
     /\ last.path = "miss"
     /\ last.user_id = resp.user_id
     /\ last.limit < resp.limit)
        => resp.result \in FreshPersonalized(resp.user_id, resp.limit)
\* ------------------------------------------------------------------- C29
\* C29: no product id occurs twice in a list that
\* get_personalized_recommendations returns, graph entries padded with fallback
\* entries included.
C29_NoDuplicateProducts ==
    Personalized =>
        \A i, j \in DOMAIN resp.result :
            resp.result[i].product_id = resp.result[j].product_id => i = j
\* ------------------------------------------------------------------- C30
\* the purchase rows of a user in a bag of rows
RowsOf(u, rows) == {r \in BagToSet(rows) : r.user_id = u}

\* C30: invalidate_user_cache(u) has completed after the purchases of u (no store
\* has been written since). A call of u that computed its list before one of these
\* purchases and writes the cache after the invalidation does not leave its
\* pre-purchase list there: the entry is a list computed from the stores as they
\* are.
C30_NoStaleRepopulation ==
    \A i \in Returning :
        (/\ ret.op = "invalidate"
         /\ ret.key = reqs[i].user_id
         /\ ~ret.failed
         /\ cUp
         /\ reqs[i].out.path = "miss"
         /\ RowsOf(reqs[i].user_id, reqs[i].seen) # RowsOf(reqs[i].user_id, purchases))
            => cache[RecommendationsKey(reqs[i].user_id)]
                  \in FreshPersonalized(reqs[i].user_id, reqs[i].limit)
====
